---- MODULE Spec2Model ----
(***************************************************************************)
(* gitingest entry point: ingest_async (the suspendable pipeline           *)
(* parse -> clone -> ingest -> write output -> cleanup) and ingest (the    *)
(* blocking adapter, asyncio.run of ingest_async).                         *)
(*                                                                         *)
(* Python's None is the string "None"; every other string is itself.       *)
(* The collaborators imported by entrypoint.py (parse_query,               *)
(* IngestionQuery.extract_clone_config, clone_repo, ingest_query,          *)
(* TMP_BASE_PATH) live outside the file and are modelled from the          *)
(* specification's contracts of QueryParser, Cloner and Ingestor.          *)
(***************************************************************************)
EXTENDS Naturals, Sequences, FiniteSets

None == "None"

\* ------------------------------------------------------------ file system
TMP_BASE_PATH == "/tmp/gitingest"
LocalDir == "/local/dir"
CallerDir == "/caller/tmp"
\* The same directory spelled with a trailing separator.
CallerDirSlash == "/caller/tmp/"

Calls == {1, 2}

\* The uniquely named directory parse_query allocates under TMP_BASE_PATH
\* for call i.
AllocDir(i) == IF i = 1 THEN "/tmp/gitingest/id-1" ELSE "/tmp/gitingest/id-2"

\* The directory a path names when the operating system resolves it: a
\* trailing separator does not change the directory.
directory_of(p) == IF p = CallerDirSlash THEN CallerDir ELSE p

\* pathlib.Path(s): the path object of the string s; its spelling is
\* normalised (a trailing separator is dropped).
Path(s) == IF s = CallerDirSlash THEN CallerDir ELSE s

\* p is q or lies below q.
Under(p, q) == p = q \/ (q = TMP_BASE_PATH /\ \E i \in Calls : p = AllocDir(i))

\* shutil.rmtree(path): path and everything below it is gone.
rmtree(dirs, path) == {p \in dirs : ~Under(p, directory_of(path))}

\* ------------------------------------------------------------ arguments
RemoteUrl == "https://host/owner/repo"
RemoteMain == "https://host/owner/repo/tree/main"

DefaultMaxFileSize == 10485760

Sources == {"", LocalDir, RemoteUrl, RemoteMain}
TempCloneDirs == {None, CallerDir, CallerDirSlash}
MaxFileSizes == {DefaultMaxFileSize, 1000}
IncludePatterns == {None, "*.py"}
ExcludePatterns == {None, " "}
Branches == {None, "", "dev"}
Tokens == {None, "", "tokA"}
Outputs == {None, "out.txt"}
EnvTokens == {None, "envT"}

Arguments == [source : Sources, temp_clone_dir : TempCloneDirs,
              max_file_size : MaxFileSizes, include_patterns : IncludePatterns,
              exclude_patterns : ExcludePatterns, branch : Branches,
              token : Tokens, output : Outputs]

\* The parameter defaults of ingest_async's signature (source has none).
SignatureDefaults ==
    [source |-> "", temp_clone_dir |-> None, max_file_size |-> DefaultMaxFileSize,
     include_patterns |-> None, exclude_patterns |-> None, branch |-> None,
     token |-> None, output |-> None]

\* Python truthiness of an Optional[str]: None and "" are falsy.
Truthy(x) == x # None /\ x # ""

\* ------------------------------------------------------------ pure steps
\* Mutant: the environment credential wins over the argument.
resolve_token_env_first(token, env) == IF env # None THEN env ELSE token

\* if not token: token = os.getenv("GITHUB_TOKEN")
resolve_token(token, env) == IF ~Truthy(token) THEN env ELSE token

\* Mutant: the branch embedded in the source wins over the argument.
selected_branch_embedded_first(branch, query_branch) ==
    IF Truthy(query_branch) THEN query_branch ELSE branch

\* selected_branch = branch if branch else query.branch
selected_branch(branch, query_branch) == IF Truthy(branch) THEN branch ELSE query_branch

\* Mutant: ingest forgets to pass `branch` on.
ingest_kwargs_without_branch(a) ==
    [source |-> a.source, temp_clone_dir |-> a.temp_clone_dir,
     max_file_size |-> a.max_file_size, include_patterns |-> a.include_patterns,
     exclude_patterns |-> a.exclude_patterns, branch |-> None,
     token |-> a.token, output |-> a.output]

\* The keyword arguments ingest hands to ingest_async.
ingest_kwargs(a) ==
    [source |-> a.source, temp_clone_dir |-> a.temp_clone_dir,
     max_file_size |-> a.max_file_size, include_patterns |-> a.include_patterns,
     exclude_patterns |-> a.exclude_patterns, branch |-> a.branch,
     token |-> a.token, output |-> a.output]

\* ------------------------------------------------------------ collaborators
NoQuery == [url |-> None, branch |-> None, local_path |-> None,
            max_file_size |-> 0, include_patterns |-> None,
            ignore_patterns |-> None]

NoConfig == [url |-> None, branch |-> None, local_path |-> None]

\* SourceResolver: an existing local entry is Local, otherwise a parseable
\* remote reference is Remote, otherwise the source is invalid.
source_kind(source, dirs) ==
    IF source \in dirs THEN "Local"
    ELSE IF source \in {RemoteUrl, RemoteMain} THEN "Remote"
    ELSE "Invalid"

\* The branch embedded in a remote source (owner/repo/tree/<branch>).
embedded_branch(source) == IF source = RemoteMain THEN "main" ELSE None

\* A pattern that is empty or whitespace-only is rejected.
bad_pattern(p) == p \in {"", " "}

\* parse_query(source, max_file_size, from_web, include_patterns, ignore_patterns)
\* for call i: [err, query].
parse_query(i, source, max_file_size, include_patterns, ignore_patterns, dirs) ==
    IF source_kind(source, dirs) = "Invalid"
    THEN [err |-> "InvalidSourceError", query |-> NoQuery]
    ELSE IF bad_pattern(include_patterns) \/ bad_pattern(ignore_patterns)
    THEN [err |-> "InvalidPatternError", query |-> NoQuery]
    ELSE [err |-> None,
          query |-> [url |-> IF source_kind(source, dirs) = "Remote" THEN RemoteUrl ELSE None,
                     branch |-> IF source_kind(source, dirs) = "Remote"
                                THEN embedded_branch(source) ELSE None,
                     local_path |-> IF source_kind(source, dirs) = "Remote"
                                    THEN AllocDir(i) ELSE source,
                     max_file_size |-> max_file_size,
                     include_patterns |-> include_patterns,
                     ignore_patterns |-> ignore_patterns]]

\* query.extract_clone_config(): {remoteRef, branch, localPath} of the query.
extract_clone_config(query) ==
    [url |-> query.url, branch |-> query.branch, local_path |-> query.local_path]

\* ingest_query(query): the digest (summary, tree, content) of the tree at
\* query.local_path.
Label(query) == IF query.url # None THEN query.url ELSE query.local_path

ingest_query(query) ==
    << <<"summary", Label(query), query.branch>>,
       <<"tree", Label(query)>>,
       <<"content", Label(query)>> >>

NoDigest == << >>

\* Mutant: the content is written before the tree.
output_text_content_first(tree, content) == content \o <<"\n">> \o tree

\* tree + "\n" + content
output_text(tree, content) == tree \o <<"\n">> \o content

\* ------------------------------------------------------------ state
VARIABLES
    call,       \* call[i]: the frame of ingestion call i (arguments, locals, position)
    fs,         \* the directories that exist on disk
    outfiles,   \* outfiles[path]: the text of the output file, << >> while never written
    environ     \* the value of the GITHUB_TOKEN environment variable (None: unset)

vars == <<call, fs, outfiles, environ>>

NoOutcome == [kind |-> "pending", digest |-> NoDigest, error |-> None]
Returned(d) == [kind |-> "digest", digest |-> d, error |-> None]
Raised(e) == [kind |-> "error", digest |-> NoDigest, error |-> e]

NoResp == [clone_ret |-> "unset", clone |-> "unset", ingest |-> "unset",
           write |-> "unset", rm |-> "unset", cancel |-> "no"]

\* One observable step of a call: the operation, its arguments, its result.
Ev(op, path, branch, token, aux, res) ==
    [op |-> op, path |-> path, branch |-> branch, token |-> token,
     aux |-> aux, res |-> res]

\* The frame of a call before its first step.  ingest_async is driven by the
\* event loop that awaits it; ingest is called from a context in which a loop
\* is running (ctx_loop) or not.
Frame(entry, ctx_loop, twin, a) ==
    [entry |-> entry, ctx_loop |-> ctx_loop, twin |-> twin,
     args |-> a,
     kwargs |-> IF entry = "ingest_async" THEN a ELSE SignatureDefaults,
     pc |-> IF entry = "ingest" THEN "ingest_call"
            ELSE IF entry = "ingest_async" THEN "start" ELSE "unused",
     loop_running |-> ctx_loop,
     token |-> None, query |-> NoQuery, clone_config |-> NoConfig,
     repo_cloned |-> FALSE, clone_dir_used |-> None,
     digest |-> NoDigest, exc |-> None,
     result |-> NoOutcome, ret |-> NoOutcome,
     resp |-> NoResp, trace |-> << >>]

Unused == Frame("unused", FALSE, 0, CHOOSE a \in Arguments : TRUE)

EntryModes == {<<"ingest_async", TRUE>>, <<"ingest", FALSE>>, <<"ingest", TRUE>>}

Init ==
    /\ \E m \in EntryModes, a \in Arguments :
           call = [i \in Calls |-> IF i = 1 THEN Frame(m[1], m[2], 0, a) ELSE Unused]
    /\ fs = {LocalDir, TMP_BASE_PATH}
    /\ outfiles = [o \in Outputs \ {None} |-> << >>]
    /\ environ \in EnvTokens

\* The responses a collaborator may give call i for step f: any of All, or,
\* for a call that repeats its twin's run, the response the twin received.
Allowed(i, f, All) ==
    IF call[i].twin # 0 /\ call[call[i].twin].resp[f] # "unset"
    THEN {call[call[i].twin].resp[f]}
    ELSE All

\* An exception raised inside the try block: control goes to the finally block.
Raise(c, e) == [c EXCEPT !.exc = e, !.pc = "finally"]

Log(c, e) == [c EXCEPT !.trace = Append(@, e)]

\* ------------------------------------------------------------ ingest
\* ingest: asyncio.run(ingest_async(source=source, ...)).  asyncio.run refuses
\* to start inside a running event loop (RuntimeError); otherwise it runs the
\* coroutine on a new loop of its own.
\* A call that repeats its twin's run starts once the twin's run is over, so
\* that every answer it replays has been given.
run_refusal == "RuntimeError"

IngestCall(i) ==
    /\ call[i].pc = "ingest_call"
    /\ call[i].twin # 0 => call[call[i].twin].pc = "done"
    /\ call' = [call EXCEPT ![i] =
                  IF call[i].ctx_loop
                  THEN [@ EXCEPT !.pc = "done", !.ret = Raised(run_refusal)]
                  ELSE [@ EXCEPT !.pc = "start", !.loop_running = TRUE,
                                 !.kwargs = ingest_kwargs(call[i].args)]]
    /\ UNCHANGED <<fs, outfiles, environ>>

\* What asyncio.run hands back to ingest's caller: the coroutine's outcome.
run_outcome(result) == result

IngestReturn(i) ==
    /\ call[i].pc = "run_return"
    /\ call' = [call EXCEPT ![i] =
                  [@ EXCEPT !.pc = "done", !.loop_running = FALSE,
                            !.ret = run_outcome(call[i].result)]]
    /\ UNCHANGED <<fs, outfiles, environ>>

\* ------------------------------------------------------------ ingest_async
\* repo_cloned = False; clone_dir_used = None; token resolution.
Start(i) ==
    /\ call[i].pc = "start"
    /\ call' = [call EXCEPT ![i] =
                  [@ EXCEPT !.pc = "parse", !.repo_cloned = FALSE,
                            !.clone_dir_used = None,
                            !.token = resolve_token(call[i].kwargs.token, environ)]]
    /\ UNCHANGED <<fs, outfiles, environ>>

\* Mutant: a parse error is swallowed and the call goes on to the Ingestor.
after_parse_swallowing(c, r) == [c EXCEPT !.query = r.query, !.pc = "ingest"]

\* Mutant: the clone branch is taken whatever the query's url.
after_parse_always_remote(c, r) ==
    IF r.err # None THEN Raise(c, r.err)
    ELSE [c EXCEPT !.query = r.query, !.pc = "remote"]

\* The awaited parse_query finishes: its error propagates out of the await,
\* or the query is bound and `if query.url` selects the clone branch.
after_parse(c, r) ==
    IF r.err # None THEN Raise(c, r.err)
    ELSE [c EXCEPT !.query = r.query,
                   !.pc = IF Truthy(r.query.url) THEN "remote" ELSE "ingest"]

\* query = await parse_query(...); then the test `if query.url`.
ParseQuery(i) ==
    /\ call[i].pc = "parse"
    /\ LET k == call[i].kwargs
           r == parse_query(i, k.source, k.max_file_size, k.include_patterns,
                            k.exclude_patterns, fs)
           c == Log(call[i], Ev("parse", k.source, None, None,
                                <<k.max_file_size, k.include_patterns, k.exclude_patterns>>,
                                IF r.err = None THEN "ok" ELSE r.err))
       IN  call' = [call EXCEPT ![i] = after_parse(c, r)]
    /\ UNCHANGED <<fs, outfiles, environ>>

\* The query.url branch up to the call of clone_repo: branch override,
\* clone config, caller-supplied directory, recorded directory, and the test
\* that clone_repo returned a coroutine.
override_branch(query, branch) ==
    [query EXCEPT !.branch = selected_branch(branch, query.branch)]

\* clone_config.local_path = temp_clone_dir
with_temp_clone_dir(rec, temp_clone_dir) ==
    IF temp_clone_dir # None THEN [rec EXCEPT !.local_path = temp_clone_dir] ELSE rec

\* Mutant: the query keeps the directory parse_query allocated.
with_query_path_kept(query, temp_clone_dir) == query

\* query.local_path = Path(temp_clone_dir)
with_query_path(query, temp_clone_dir) ==
    IF temp_clone_dir # None THEN [query EXCEPT !.local_path = Path(temp_clone_dir)]
    ELSE query

\* Mutant: the is_running test inverted.
clone_driver_nested(loop_running) == IF loop_running THEN "asyncio.run" ELSE "await"

\* How the clone coroutine is driven: awaited on the running loop, or handed
\* to a nested asyncio.run when no loop is running.
clone_driver(loop_running) == IF loop_running THEN "await" ELSE "asyncio.run"

\* Mutant: what clone_repo returned is awaited without the coroutine test.
after_clone_repo_unchecked(c, kind) == [c EXCEPT !.pc = "cloning"]

\* if inspect.iscoroutine(clone_coroutine): ... else: raise TypeError(...)
after_clone_repo(c, kind) ==
    IF kind = "coroutine" THEN [c EXCEPT !.pc = "cloning"] ELSE Raise(c, "TypeError")

PrepareClone(i) ==
    /\ call[i].pc = "remote"
    /\ \E kind \in Allowed(i, "clone_ret", {"coroutine", "not_coroutine"}) :
         LET k == call[i].kwargs
             q == with_query_path(override_branch(call[i].query, k.branch),
                                  k.temp_clone_dir)
             cc == with_temp_clone_dir(
                       extract_clone_config(override_branch(call[i].query, k.branch)),
                       k.temp_clone_dir)
             c == Log([call[i] EXCEPT !.query = q, !.clone_config = cc,
                                      !.clone_dir_used = cc.local_path,
                                      !.resp.clone_ret = kind],
                      Ev("clone", cc.local_path, cc.branch, call[i].token,
                         <<cc.url, clone_driver(call[i].loop_running)>>, kind))
         IN  call' = [call EXCEPT ![i] = after_clone_repo(c, kind)]
    /\ UNCHANGED <<fs, outfiles, environ>>

\* The Cloner's effect on disk: a finished clone populates the target; a
\* failed or abandoned one may leave the target partially created.
clone_effect(dirs, target, outcome) ==
    IF outcome \in {"ok", "fail_partial"} THEN dirs \cup {directory_of(target)}
    ELSE dirs

\* Mutant: a failed clone is swallowed and the call goes on.
after_clone_swallowing(c, outcome) ==
    [c EXCEPT !.repo_cloned = TRUE, !.pc = "ingest"]

\* The awaited clone coroutine finishes: repo_cloned = True and on to the
\* Ingestor, or CloneError propagates out of the await.
after_clone(c, outcome) ==
    IF outcome = "ok"
    THEN [c EXCEPT !.repo_cloned = TRUE, !.pc = "ingest"]
    ELSE Raise(c, "CloneError")

CloneFinish(i) ==
    /\ call[i].pc = "cloning"
    /\ \E outcome \in Allowed(i, "clone", {"ok", "fail_clean", "fail_partial"}) :
         LET c == Log([call[i] EXCEPT !.resp.clone = outcome],
                      Ev("clone_end", call[i].clone_config.local_path, None, None,
                         << >>, outcome))
         IN  /\ call' = [call EXCEPT ![i] = after_clone(c, outcome)]
             /\ fs' = clone_effect(fs, call[i].clone_config.local_path, outcome)
    /\ UNCHANGED <<outfiles, environ>>

\* The task running ingest_async is cancelled while it is suspended at an
\* await (parse_query or the clone): CancelledError is thrown in at the await.
\* A clone abandoned in flight may have created its target already.
Cancel(i) ==
    /\ call[i].entry = "ingest_async"
    /\ call[i].pc \in {"parse", "cloning"}
    /\ \E partial \in IF call[i].pc = "cloning" THEN {"fail_clean", "fail_partial"}
                      ELSE {"fail_clean"} :
         /\ call' = [call EXCEPT ![i] =
                       Raise(Log([@ EXCEPT !.resp.cancel = call[i].pc],
                                 Ev("cancelled", None, None, None, << >>, partial)),
                             "CancelledError")]
         /\ fs' = IF call[i].pc = "cloning"
                  THEN clone_effect(fs, call[i].clone_config.local_path, partial)
                  ELSE fs
    /\ UNCHANGED <<outfiles, environ>>

\* summary, tree, content = ingest_query(query).  The Ingestor fails with
\* IngestionError when the root is unreadable or has vanished.
IngestQuery(i) ==
    /\ call[i].pc = "ingest"
    /\ \E outcome \in IF directory_of(call[i].query.local_path) \in fs
                      THEN Allowed(i, "ingest", {"ok", "IngestionError"})
                      ELSE {"IngestionError"} :
         LET c == Log([call[i] EXCEPT !.resp.ingest = outcome],
                      Ev("ingest", call[i].query.local_path, call[i].query.branch, None,
                         <<call[i].query.url>>, outcome))
         IN  call' = [call EXCEPT ![i] =
                        IF outcome = "ok"
                        THEN [c EXCEPT !.digest = ingest_query(call[i].query), !.pc = "write"]
                        ELSE Raise(c, outcome)]
    /\ UNCHANGED <<fs, outfiles, environ>>

\* if output is not None: open(output, "w").write(tree + "\n" + content);
\* then return summary, tree, content (the finally block runs first).
WriteOutput(i) ==
    /\ call[i].pc = "write"
    /\ \E outcome \in IF call[i].kwargs.output # None
                      THEN Allowed(i, "write", {"ok", "OSError"})
                      ELSE {"skip"} :
         LET out == call[i].kwargs.output
             text == output_text(call[i].digest[2], call[i].digest[3])
             c == IF outcome = "skip" THEN call[i]
                  ELSE Log([call[i] EXCEPT !.resp.write = outcome],
                           Ev("write", out, None, None, text, outcome))
         IN  /\ call' = [call EXCEPT ![i] =
                           IF outcome = "OSError" THEN Raise(c, outcome)
                           ELSE [c EXCEPT !.pc = "finally"]]
             /\ outfiles' = IF outcome = "ok" THEN [outfiles EXCEPT ![out] = text]
                            ELSE outfiles
    /\ UNCHANGED <<fs, environ>>

\* Mutant: the cleanup removes the base path instead of the recorded directory.
cleanup_target_base(repo_cloned, clone_dir_used) ==
    IF repo_cloned THEN TMP_BASE_PATH ELSE None

\* Mutant: the repo_cloned test inverted.
cleanup_target_inverted(repo_cloned, clone_dir_used) ==
    IF ~repo_cloned
    THEN IF clone_dir_used # None THEN clone_dir_used ELSE TMP_BASE_PATH
    ELSE None

\* The finally block: the directory it removes, None when it removes none.
cleanup_target(repo_cloned, clone_dir_used) ==
    IF repo_cloned
    THEN IF clone_dir_used # None THEN clone_dir_used ELSE TMP_BASE_PATH
    ELSE None

\* Mutant: a digest that was computed is returned although an error is pending.
outcome_of_digest_first(exc, digest) ==
    IF digest # NoDigest THEN Returned(digest) ELSE Raised(exc)

\* What the coroutine delivers once the finally block is done: the pending
\* exception, else the returned digest.
outcome_of(exc, digest) == IF exc # None THEN Raised(exc) ELSE Returned(digest)

\* Mutant: rmtree without ignore_errors, its failure replaces what was pending.
after_rmtree_escalating(exc, rm_outcome) ==
    IF rm_outcome = "failed" THEN "rmtree:OSError" ELSE exc

\* shutil.rmtree(..., ignore_errors=True): a removal that fails raises
\* nothing, so the exception pending in the finally block (None: none) is
\* what it was.
after_rmtree(exc, rm_outcome) == exc

\* Mutant: after the cleanup a call that has a digest runs the Ingestor once
\* more before it returns.
finish_reingesting(c, r) ==
    IF r.kind = "digest"
         /\ Cardinality({k \in DOMAIN c.trace : c.trace[k].op = "ingest"}) < 2
    THEN [c EXCEPT !.pc = "ingest"]
    ELSE IF c.entry = "ingest" THEN [c EXCEPT !.result = r, !.pc = "run_return"]
    ELSE [c EXCEPT !.result = r, !.ret = r, !.pc = "done"]

\* The finally block is done and the coroutine completes with outcome r:
\* handed to the awaiting caller, or to asyncio.run inside ingest.
finish(c, r) ==
    IF c.entry = "ingest" THEN [c EXCEPT !.result = r, !.pc = "run_return"]
    ELSE [c EXCEPT !.result = r, !.ret = r, !.pc = "done"]

\* The finally block.  A removal that fails leaves the directory in place.
Finally(i) ==
    /\ call[i].pc = "finally"
    /\ LET target == cleanup_target(call[i].repo_cloned, call[i].clone_dir_used)
       IN  \E outcome \in IF target # None THEN Allowed(i, "rm", {"ok", "failed"})
                          ELSE {"skip"} :
             LET c == IF outcome = "skip" THEN call[i]
                      ELSE Log([call[i] EXCEPT !.resp.rm = outcome],
                               Ev("rmtree", target, None, None, << >>, outcome))
                 r == outcome_of(after_rmtree(call[i].exc, outcome), call[i].digest)
             IN  /\ call' = [call EXCEPT ![i] = finish(c, r)]
                 /\ fs' = IF outcome = "ok" THEN rmtree(fs, target) ELSE fs
    /\ UNCHANGED <<outfiles, environ>>

Next ==
    \E i \in Calls :
        \/ IngestCall(i)
        \/ IngestReturn(i)
        \/ Start(i)
        \/ ParseQuery(i)
        \/ PrepareClone(i)
        \/ CloneFinish(i)
        \/ Cancel(i)
        \/ IngestQuery(i)
        \/ WriteOutput(i)
        \/ Finally(i)

Spec == Init /\ [][Next]_vars

\* The same arguments given first to ingest_async (call 1) and then to ingest
\* (call 2), the collaborators answering call 2 as they answered call 1.
InitEq ==
    /\ \E a \in Arguments :
           call = [i \in Calls |-> IF i = 1 THEN Frame("ingest_async", TRUE, 0, a)
                                  ELSE Frame("ingest", FALSE, 1, a)]
    /\ fs = {LocalDir, TMP_BASE_PATH}
    /\ outfiles = [o \in Outputs \ {None} |-> << >>]
    /\ environ \in EnvTokens

SpecEq == InitEq /\ [][Next]_vars

\* Two calls in flight at once: call 1 is a task awaiting ingest_async, call 2
\* is another such task or an ingest running in another thread.  Their steps
\* interleave at every await and, between threads, at every step.
ConcArguments ==
    {a \in Arguments : /\ a.source \in {RemoteUrl, LocalDir}
                       /\ a.max_file_size = DefaultMaxFileSize
                       /\ a.include_patterns = None /\ a.exclude_patterns = None
                       /\ a.branch = None /\ a.token = None}

InitConc ==
    /\ \E a1 \in ConcArguments, a2 \in ConcArguments,
          m \in {<<"ingest_async", TRUE>>, <<"ingest", FALSE>>} :
           call = [i \in Calls |-> IF i = 1 THEN Frame("ingest_async", TRUE, 0, a1)
                                  ELSE Frame(m[1], m[2], 0, a2)]
    /\ fs = {LocalDir, TMP_BASE_PATH}
    /\ outfiles = [o \in Outputs \ {None} |-> << >>]
    /\ environ = None

SpecConc == InitConc /\ [][Next]_vars

\* ------------------------------------------------------------ properties
\* The coroutine of call i has completed (its finally block is done).
Finished(i) == call[i].pc \in {"run_return", "done"}

\* The positions of call i's steps of kind op.
Steps(i, op) == {k \in DOMAIN call[i].trace : call[i].trace[k].op = op}

\* C1: when the Cloner completed (repo_cloned was set), the finished call has
\* applied rmtree to the recorded clone directory, once and as its last step,
\* whether the Ingestor returned a digest, raised IngestionError, or the
\* output write failed; the directory is gone from disk unless that
\* best-effort removal itself failed (the failure is swallowed).
C1_CleanupAfterClone ==
    \A i \in Calls :
        (Finished(i) /\ call[i].repo_cloned) =>
            /\ Cardinality(Steps(i, "rmtree")) = 1
            /\ \A k \in Steps(i, "rmtree") :
                  /\ k = Len(call[i].trace)
                  /\ call[i].trace[k].path = call[i].clone_config.local_path
                  /\ call[i].trace[k].path = call[i].clone_dir_used
                  /\ call[i].trace[k].res = "ok" =>
                        directory_of(call[i].clone_dir_used) \notin fs

\* A call whose clone succeeded and whose output write failed has finished,
\* and its clone directory is gone.
C1_Witness ==
    \E i \in Calls :
        /\ Finished(i) /\ call[i].repo_cloned
        /\ call[i].result = Raised("OSError")
        /\ directory_of(call[i].clone_dir_used) \notin fs

\* C2: after a Remote call without caller-supplied directory has propagated
\* CloneError, its allocated temp directory does not exist on disk.
C2_CloneErrorLeavesNoTempDir ==
    \A i \in Calls :
        ( /\ Finished(i)
          /\ Truthy(call[i].query.url)
          /\ call[i].kwargs.temp_clone_dir = None
          /\ call[i].result = Raised("CloneError") )
        => AllocDir(i) \notin fs

\* C3: a call cancelled while the Cloner was in flight never runs the
\* Ingestor, returns no digest, and the directory the clone was writing into
\* is gone when the call has finished.
C3_CancelDuringCloneCleansUp ==
    \A i \in Calls :
        (Finished(i) /\ call[i].resp.cancel = "cloning") =>
            /\ Steps(i, "ingest") = {}
            /\ call[i].result.kind # "digest"
            /\ directory_of(call[i].clone_config.local_path) \notin fs

\* C4: on a Remote call the Ingestor runs only after the Cloner has completed
\* successfully; when the Cloner fails the call ends with CloneError, the
\* Ingestor is never invoked and no output is written.
C4_CloneBeforeIngest ==
    \A i \in Calls :
        Truthy(call[i].query.url) =>
            /\ \A k \in Steps(i, "ingest") :
                  \E j \in 1..(k - 1) :
                      /\ call[i].trace[j].op = "clone_end"
                      /\ call[i].trace[j].res = "ok"
            /\ call[i].resp.clone \in {"fail_clean", "fail_partial"} =>
                  /\ Steps(i, "ingest") = {}
                  /\ Steps(i, "write") = {}
                  /\ call[i].digest = NoDigest
                  /\ call[i].pc \in {"finally", "run_return", "done"}
                  /\ call[i].exc = "CloneError"
                  /\ Finished(i) => call[i].result = Raised("CloneError")

\* A Remote call whose Cloner failed has finished with CloneError.
C4_Witness ==
    \E i \in Calls :
        /\ Finished(i)
        /\ call[i].resp.clone = "fail_partial"
        /\ call[i].result = Raised("CloneError")

\* C5: branch-override precedence.  On every Remote call the branch of the
\* query and of the CloneConfig handed to the Cloner is the caller's `branch`
\* argument when one is supplied (a non-empty string; None and "" supply
\* none), whatever branch the source embeds, and the branch embedded in the
\* source otherwise.
C5_BranchOverride ==
    \A i \in Calls :
        \A k \in Steps(i, "clone") :
            LET want == IF Truthy(call[i].args.branch) THEN call[i].args.branch
                        ELSE embedded_branch(call[i].args.source)
            IN  /\ call[i].trace[k].branch = want
                /\ call[i].clone_config.branch = want
                /\ call[i].query.branch = want

\* A source embedding main was cloned with branch="dev".
C5_Witness ==
    \E i \in Calls :
        /\ Steps(i, "clone") # {}
        /\ call[i].args.source = RemoteMain
        /\ call[i].args.branch = "dev"
        /\ call[i].clone_config.branch = "dev"
        /\ call[i].query.branch = "dev"

\* C6: credential resolution.  The token is resolved once, before parsing, and
\* stays what it was resolved to: the caller's `token` argument when one is
\* supplied (a non-empty string), otherwise the GITHUB_TOKEN value, otherwise
\* none; that value is the token handed to the Cloner, so a supplied token is
\* never replaced by the environment's.
C6_TokenResolution ==
    \A i \in Calls :
        LET want == IF Truthy(call[i].args.token) THEN call[i].args.token ELSE environ
        IN  /\ (call[i].pc = "parse" \/ call[i].trace # << >>) => call[i].token = want
            /\ \A k \in Steps(i, "clone") : call[i].trace[k].token = want

\* The Cloner received the caller's token although GITHUB_TOKEN was set.
C6_Witness ==
    \E i \in Calls :
        /\ call[i].args.token = "tokA"
        /\ environ = "envT"
        /\ \E k \in Steps(i, "clone") : call[i].trace[k].token = "tokA"

\* No step of call i failed (a failed best-effort removal is not a failure of
\* the call).
NoFailure(i) ==
    \A k \in DOMAIN call[i].trace :
        call[i].trace[k].op # "rmtree" => call[i].trace[k].res \in {"ok", "coroutine"}

\* C7: a call ends with exactly one outcome: the Ingestor's complete
\* (summary, tree, content), or one propagated error.  A digest is returned
\* only when no parse, clone, ingest or output-write step failed, and it is
\* the whole digest.
C7_OneOutcome ==
    \A i \in Calls :
        /\ (call[i].ret.kind # "pending") <=> (call[i].pc = "done")
        /\ call[i].ret.kind \in {"pending", "digest", "error"}
        /\ call[i].ret.kind = "digest" =>
              /\ Len(call[i].ret.digest) = 3
              /\ call[i].ret.digest = call[i].digest
              /\ Steps(i, "ingest") # {}
              /\ call[i].ret.error = None
              /\ call[i].exc = None
              /\ NoFailure(i)
        /\ call[i].ret.kind = "error" =>
              /\ call[i].ret.digest = NoDigest
              /\ call[i].ret.error # None
              /\ call[i].entry = "ingest_async" => call[i].ret.error = call[i].exc

\* The Ingestor produced a digest, the output write failed, and the call
\* ended with the error and no digest.
C7_Witness ==
    \E i \in Calls :
        /\ call[i].pc = "done"
        /\ call[i].digest # NoDigest
        /\ call[i].ret = Raised("OSError")

\* Call i's steps with its own allocated directory written as "<alloc>".
CanonTrace(i) ==
    [k \in DOMAIN call[i].trace |->
        [call[i].trace[k] EXCEPT !.path = IF @ = AllocDir(i) THEN "<alloc>" ELSE @]]

SameTrace(i, j) ==
    /\ Len(call[i].trace) = Len(call[j].trace)
    /\ \A k \in DOMAIN call[i].trace :
          /\ call[i].trace[k].op = call[j].trace[k].op
          /\ CanonTrace(i)[k] = CanonTrace(j)[k]

\* C8: ingest is observationally identical to ingest_async: given the same
\* arguments and the same answers of parser, Cloner, Ingestor and file system,
\* the finished ingest call has performed the same parse / clone / ingest /
\* write / rmtree steps with the same arguments and results as the
\* (uncancelled) ingest_async call, and hands its caller the same digest or
\* the same error.
C8_BlockingMatchesAsync ==
    \A i \in Calls :
        ( /\ call[i].entry = "ingest" /\ call[i].twin # 0
          /\ call[i].pc = "done"
          /\ call[call[i].twin].pc = "done"
          /\ call[call[i].twin].resp.cancel = "no" )
        => /\ SameTrace(call[i].twin, i)
           /\ call[i].ret = call[call[i].twin].ret
           /\ call[i].kwargs = call[call[i].twin].kwargs

\* Both forms cloned a source embedding main with branch="dev", wrote the
\* output, removed their clone directory and returned the digest.
C8_Witness ==
    \E i \in Calls :
        /\ call[i].entry = "ingest" /\ call[i].twin # 0
        /\ call[i].pc = "done" /\ call[call[i].twin].pc = "done"
        /\ call[i].args.source = RemoteMain /\ call[i].args.branch = "dev"
        /\ call[i].ret.kind = "digest"
        /\ Steps(i, "write") # {} /\ Steps(i, "rmtree") # {}
        /\ call[call[i].twin].ret.kind = "digest"

\* C9: ingest called while an event loop is running raises ConfigurationError
\* and has done nothing else.
C9_BlockingInsideLoop ==
    \A i \in Calls :
        (call[i].entry = "ingest" /\ call[i].ctx_loop /\ call[i].pc = "done") =>
            /\ call[i].ret = Raised("ConfigurationError")
            /\ call[i].trace = << >>

\* The directory recorded as call i's clone target.
RecordedTarget(i) ==
    IF call[i].args.temp_clone_dir # None THEN call[i].args.temp_clone_dir
    ELSE AllocDir(i)

\* C10: every removal a call performs is of its own recorded clone target
\* (the caller's temp_clone_dir when given, its allocated directory
\* otherwise); the base path TMP_BASE_PATH and the user's local directory are
\* never removed.
C10_RemovesOnlyCloneTarget ==
    /\ TMP_BASE_PATH \in fs
    /\ LocalDir \in fs
    /\ \A i \in Calls :
          \A k \in Steps(i, "rmtree") :
              /\ call[i].trace[k].path = RecordedTarget(i)
              /\ call[i].trace[k].path = call[i].clone_config.local_path
              /\ call[i].trace[k].path # TMP_BASE_PATH

\* A caller-supplied directory was removed and the base path is still there.
C10_Witness ==
    \E i \in Calls :
        /\ \E k \in Steps(i, "rmtree") :
              /\ call[i].trace[k].path = CallerDir
              /\ call[i].trace[k].res = "ok"
        /\ CallerDir \notin fs
        /\ TMP_BASE_PATH \in fs

\* C11: on a Remote call the caller's temp_clone_dir, when given, is the
\* Cloner's target as given (clone_config.local_path) and, as a path object,
\* the Ingestor's root (query.local_path = Path(temp_clone_dir)); whenever the
\* Ingestor runs on a Remote call, the directory cloned into, the directory
\* ingested from and the directory recorded for cleanup are one directory.
C11_OneCloneDirectory ==
    \A i \in Calls :
        Steps(i, "clone") # {} =>
            /\ call[i].args.temp_clone_dir # None =>
                  /\ call[i].clone_config.local_path = call[i].args.temp_clone_dir
                  /\ call[i].query.local_path = Path(call[i].args.temp_clone_dir)
                  /\ directory_of(call[i].query.local_path)
                        = directory_of(call[i].args.temp_clone_dir)
            /\ call[i].clone_dir_used = call[i].clone_config.local_path
            /\ \A k \in Steps(i, "ingest") : \A j \in Steps(i, "clone") :
                  /\ j < k
                  /\ call[i].trace[j].path = call[i].clone_config.local_path
                  /\ call[i].trace[k].path = call[i].query.local_path
                  /\ directory_of(call[i].trace[k].path)
                        = directory_of(call[i].trace[j].path)
                  /\ directory_of(call[i].trace[k].path)
                        = directory_of(call[i].clone_dir_used)

\* The Ingestor has run on a clone made in a caller-supplied directory whose
\* spelling the path object normalises.
C11_Witness ==
    \E i \in Calls :
        /\ call[i].args.temp_clone_dir = CallerDirSlash
        /\ call[i].query.local_path = CallerDir
        /\ call[i].clone_dir_used = CallerDirSlash
        /\ \E k \in Steps(i, "ingest") : call[i].trace[k].res = "ok"

\* Call j is cloning into its clone directory or about to ingest from it.
InUse(j) == call[j].pc \in {"cloning", "ingest"} /\ Truthy(call[j].query.url)

\* This step is call i's finally block removing its cleanup target.
Removes(i) ==
    /\ call[i].pc = "finally"
    /\ call'[i].pc # "finally"
    /\ call'[i].resp.rm = "ok"

\* Calls i and j were given the same directory as temp_clone_dir.
SharedDir(i, j) ==
    /\ call[i].args.temp_clone_dir # None
    /\ call[j].args.temp_clone_dir # None
    /\ directory_of(call[i].args.temp_clone_dir)
          = directory_of(call[j].args.temp_clone_dir)

\* Every clone, ingest and removal of a Remote call i is on call i's own
\* clone directory.
OwnDirOnly ==
    \A i \in Calls :
        \A k \in Steps(i, "clone") \cup Steps(i, "rmtree")
                 \cup (IF Truthy(call[i].query.url) THEN Steps(i, "ingest") ELSE {}) :
            directory_of(call[i].trace[k].path) = directory_of(RecordedTarget(i))

C14_RemovalFailureSwallowed ==
    \A i \in Calls :
        (Finished(i) /\ call[i].resp.rm = "failed") =>
            /\ (call[i].resp.ingest = "ok" /\ call[i].resp.write \in {"ok", "unset"}) =>
                  call[i].result = Returned(ingest_query(call[i].query))
            /\ call[i].resp.ingest = "IngestionError" =>
                  call[i].result = Raised("IngestionError")
            /\ call[i].resp.write = "OSError" =>
                  call[i].result = Raised("OSError")
            /\ call[i].result.kind \in {"digest", "error"}
            /\ call[i].pc = "done" => call[i].ret = call[i].result
            /\ directory_of(call[i].clone_dir_used) \in fs

\* A call whose removal failed has returned its digest.
C14_Witness ==
    \E i \in Calls :
        /\ call[i].pc = "done"
        /\ call[i].resp.rm = "failed"
        /\ call[i].ret.kind = "digest"

\* C15: when parse_query raises, the parse was attempted once and is the
\* call's only step: the error is the pending exception at once, the Cloner
\* and the Ingestor are not invoked, no output file is written, no directory
\* is removed or created, and the finished call delivers that error.
C15_ParseErrorPropagates ==
    \A i \in Calls :
        \A k \in Steps(i, "parse") :
            call[i].trace[k].res # "ok" =>
                /\ Len(call[i].trace) = 1
                /\ call[i].trace[k].res \in {"InvalidSourceError", "InvalidPatternError"}
                /\ call[i].pc \in {"finally", "run_return", "done"}
                /\ call[i].exc = call[i].trace[k].res
                /\ Finished(i) => call[i].result = Raised(call[i].trace[k].res)
                /\ call[i].pc = "done" => call[i].ret = Raised(call[i].trace[k].res)
                /\ ~call[i].repo_cloned
                /\ call[i].digest = NoDigest
                /\ fs = {LocalDir, TMP_BASE_PATH}
                /\ \A o \in DOMAIN outfiles : outfiles[o] = << >>

\* A call on the empty source, with an output target given, has ended with
\* InvalidSourceError.
C15_Witness ==
    \E i \in Calls :
        /\ call[i].args.source = ""
        /\ call[i].args.output # None
        /\ call[i].pc = "done"
        /\ call[i].ret = Raised("InvalidSourceError")
        /\ Len(call[i].trace) = 1

\* C16: a call whose parsed query is Local (no url) never invokes the Cloner,
\* marks no clone and records no clone directory, keeps the query exactly as
\* parse_query returned it whatever `branch` and `temp_clone_dir` are, ingests
\* from the source directory, and removes nothing on any exit path: no
\* directory is created or removed, so the local directory still exists.
C16_LocalSourceUntouched ==
    \A i \in Calls :
        (call[i].query # NoQuery /\ ~Truthy(call[i].query.url)) =>
            /\ Steps(i, "clone") = {}
            /\ Steps(i, "clone_end") = {}
            /\ Steps(i, "rmtree") = {}
            /\ ~call[i].repo_cloned
            /\ call[i].clone_dir_used = None
            /\ call[i].clone_config = NoConfig
            /\ call[i].query
                  = parse_query(i, call[i].args.source, call[i].args.max_file_size,
                                call[i].args.include_patterns,
                                call[i].args.exclude_patterns, fs).query
            /\ \A k \in Steps(i, "ingest") :
                  /\ call[i].trace[k].path = call[i].args.source
                  /\ call[i].trace[k].branch = None
            /\ fs = {LocalDir, TMP_BASE_PATH}

\* A Local call given both `branch` and `temp_clone_dir` has ended with the
\* output write's failure.
C16_Witness ==
    \E i \in Calls :
        /\ call[i].args.source = LocalDir
        /\ call[i].args.branch = "dev"
        /\ call[i].args.temp_clone_dir = CallerDir
        /\ call[i].pc = "done"
        /\ call[i].ret = Raised("OSError")
        /\ LocalDir \in fs

\* C17: when clone_repo returned something that is not a coroutine, the call
\* has TypeError pending at once and delivers it; the clone is not awaited,
\* repo_cloned stays False, the Ingestor is not invoked, no output file is
\* written and nothing is removed.
C17_NonCoroutineIsTypeError ==
    \A i \in Calls :
        call[i].resp.clone_ret = "not_coroutine" =>
            /\ call[i].pc \in {"finally", "run_return", "done"}
            /\ call[i].exc = "TypeError"
            /\ Finished(i) => call[i].result = Raised("TypeError")
            /\ call[i].pc = "done" => call[i].ret = Raised("TypeError")
            /\ ~call[i].repo_cloned
            /\ Steps(i, "clone_end") = {}
            /\ Steps(i, "ingest") = {}
            /\ Steps(i, "write") = {}
            /\ Steps(i, "rmtree") = {}
            /\ \A o \in DOMAIN outfiles : outfiles[o] = << >>

\* A Remote call with an output target, whose clone_repo returned no
\* coroutine, has ended with TypeError.
C17_Witness ==
    \E i \in Calls :
        /\ call[i].resp.clone_ret = "not_coroutine"
        /\ call[i].args.output # None
        /\ call[i].pc = "done"
        /\ call[i].ret = Raised("TypeError")

\* C18: a call invokes clone_repo at most once and its clone finishes at
\* most once; a finished call that was not cancelled in its parse invoked it
\* exactly once when the query is Remote and never when it is Local; every
\* clone coroutine is awaited on the running loop, never handed to a nested
\* asyncio.run, the loop being running throughout the body of ingest_async.
C18_CloneOnceAwaited ==
    \A i \in Calls :
        /\ Cardinality(Steps(i, "clone")) <= 1
        /\ Cardinality(Steps(i, "clone_end")) <= 1
        /\ (Finished(i) /\ Truthy(call[i].query.url)) =>
              Cardinality(Steps(i, "clone")) = 1
        /\ ~Truthy(call[i].query.url) => Steps(i, "clone") = {}
        /\ \A k \in Steps(i, "clone") :
              /\ call[i].trace[k].aux[2] = "await"
              /\ call[i].trace[k].aux[2] # "asyncio.run"
        /\ call[i].pc \in {"start", "parse", "remote", "cloning", "ingest",
                            "write", "finally"} => call[i].loop_running

\* A call made through ingest has invoked clone_repo, awaited, and the clone
\* has failed without another attempt.
C18_Witness ==
    \E i \in Calls :
        /\ call[i].entry = "ingest"
        /\ call[i].pc = "done"
        /\ call[i].ret = Raised("CloneError")
        /\ \E k \in Steps(i, "clone") : call[i].trace[k].aux[2] = "await"

\* C19: a call removes a directory at most once, as its last step, after
\* every Ingestor run and output write of the call; a digest returned by a
\* Remote call was computed by an Ingestor run that preceded the removal and
\* found the directory on disk.
C19_RemovalLast ==
    \A i \in Calls :
        /\ Cardinality(Steps(i, "rmtree")) <= 1
        /\ \A k \in Steps(i, "rmtree") :
              /\ Finished(i)
              /\ k = Len(call[i].trace)
              /\ \A j \in Steps(i, "ingest") \cup Steps(i, "write") : j < k
        /\ (call[i].result.kind = "digest" /\ Truthy(call[i].query.url)) =>
              /\ Cardinality(Steps(i, "ingest")) = 1
              /\ \A j \in Steps(i, "ingest") :
                    /\ call[i].trace[j].res = "ok"
                    /\ \A k \in Steps(i, "rmtree") : j < k
              /\ call[i].result.digest = ingest_query(call[i].query)

\* A Remote call has written its output, removed its clone directory and
\* returned the digest.
C19_Witness ==
    \E i \in Calls :
        /\ call[i].pc = "done"
        /\ call[i].ret.kind = "digest"
        /\ \E k \in Steps(i, "rmtree") : call[i].trace[k].res = "ok"
        /\ \E j \in Steps(i, "write") : call[i].trace[j].res = "ok"
        /\ directory_of(call[i].clone_dir_used) \notin fs

====
